---- MODULE Spec2Model ----
(***************************************************************************)
(* Model of the Jira assistant: the request pipeline (guardrail ->         *)
(* orchestrator -> similarity | jira | final) of src/src/graphs and        *)
(* src/src/agents, the in-memory SessionStore of                           *)
(* src/src/services/session_store.py, the VectorStore of                   *)
(* src/src/services/vector_store.py with the sync job and the retrieval    *)
(* stage that hold it, and the tracker service with its notification       *)
(* webhook of src/jira-agents/services.                                    *)
(*                                                                         *)
(* Scores are similarity scores times 100 (0.5 is 50).  A text is a        *)
(* sequence of string pieces, the pieces an f-string or a join puts        *)
(* together; it is empty when every piece is the empty string.             *)
(***************************************************************************)
EXTENDS Integers, Sequences, FiniteSets, TLC

VARIABLES
    sessions,       \* SessionStore._sessions: a dict, session id -> session dict
    now,            \* the clock datetime.utcnow() reads
    last_op,        \* the latest SessionStore operation: its name and the id it addressed
    pc,             \* per request: the graph node about to run
    state,          \* per request: the AgentState threaded through the graph
    path,           \* per request: the nodes that have run, in order
    routing,        \* per request: what orchestrator_node saw and handed to the classifier
    calls,          \* per request: the tracker calls jira_node made
    result,         \* per request: the dict run_jira_assistant returned
    prior,          \* per request: the completed turns of its thread when it started
    collab_calls,   \* per request: the model and embedding calls its nodes made, in order
    faults,         \* per request: the collaborator calls that failed, in order
    checkpoint,     \* MemorySaver: thread id -> the saved "messages" channel
    started,        \* thread id -> number of requests started
    history,        \* thread id -> the messages of the completed turns, in order
    routed,         \* thread id -> number of requests that reached orchestrator_node
    firstSearched,  \* thread id -> the first completed turn ended with intent search
    index_hits,     \* the vector index as the query sees it: nearest records, best first
    index,          \* VectorStore.index: the FAISS index, its dimension and rows
    metadata,       \* VectorStore.metadata: the ticket of each row
    index_file,     \* the persisted index file
    metadata_file,  \* the persisted metadata file
    last_call,      \* the latest VectorStore call: name, arguments, outcome, results
    service_call,   \* the latest JiraService or post_notification call and what it returned
    retrieval_store,\* the VectorStore object of similarity_agent/nodes.py: its index and metadata
    synced          \* the tickets of the latest sync run of this process that were fetched and embedded

storeVars == <<sessions, now, last_op>>
reqVars == <<pc, state, path, routing, calls, result, prior, collab_calls, faults>>
convVars == <<checkpoint, started, history, routed, firstSearched, index_hits>>
ixVars == <<index, metadata, index_file, metadata_file, last_call>>
svcVars == <<service_call>>
procVars == <<retrieval_store, synced>>
vars == <<sessions, now, last_op, pc, state, path, routing, calls, result, prior, collab_calls,
          faults, checkpoint, started, history, routed, firstSearched, index_hits,
          index, metadata, index_file, metadata_file, last_call, service_call,
          retrieval_store, synced>>

----------------------------------------------------------------------------
(* Bounds *)

MaxClock == 2       \* the clock stops advancing here
MaxTurns == 2       \* requests started per thread

----------------------------------------------------------------------------
(* Values *)

None == "None"
\* session ids / conversation ids a client may send; None means no id was sent
ConversationIds == {"c1", None}

thread_id(conversation_id) == IF conversation_id = None THEN "default" ELSE conversation_id

Threads == {thread_id(c) : c \in ConversationIds}

\* request slots: two requests may be in flight at once
Requests == {"r1", "r2"}

Ticket(key, score) == [key |-> key, similarity_score |-> score]

\* match lists handed to store_similarity_results
MatchLists ==
    { <<>>,
      <<Ticket("SCRUM-1", 95)>>,
      <<Ticket("SCRUM-2", 60), Ticket("SCRUM-1", 95)>> }

Decisions == {"create_new", "update_existing"}

IsEmptyText(t) == \A i \in 1..Len(t) : t[i] = ""

Contains(t, piece) == \E i \in 1..Len(t) : t[i] = piece

----------------------------------------------------------------------------
(* SessionStore *)

\* _sessions is a dict: DOMAIN s is the set of ids it holds
NewSession(t) ==
    [exists |-> TRUE, first_turn |-> TRUE, similar_tickets |-> <<>>,
     user_decision |-> None, created_at |-> t, last_activity |-> t]

DictSet(s, id, v) == [i \in DOMAIN s \cup {id} |-> IF i = id THEN v ELSE s[i]]

DictDel(s, id) == [i \in DOMAIN s \ {id} |-> s[i]]

get_or_create_session_Reset(s, id, t) == DictSet(s, id, NewSession(t))

get_or_create_session(s, id, t) ==
    IF id \notin DOMAIN s
    THEN DictSet(s, id, NewSession(t))
    ELSE [s EXCEPT ![id].last_activity = t]

session_exists(s, id) == id \in DOMAIN s

is_first_turn(s, id) == IF id \notin DOMAIN s THEN TRUE ELSE s[id].first_turn

mark_turn_complete(s, id, t) ==
    IF id \in DOMAIN s
    THEN [s EXCEPT ![id].first_turn = FALSE, ![id].last_activity = t]
    ELSE s

store_similarity_results_Extend(s, id, tickets, t) ==
    IF id \in DOMAIN s
    THEN [s EXCEPT ![id].similar_tickets = @ \o tickets, ![id].last_activity = t]
    ELSE s

store_similarity_results(s, id, tickets, t) ==
    IF id \in DOMAIN s
    THEN [s EXCEPT ![id].similar_tickets = tickets, ![id].last_activity = t]
    ELSE s

get_similar_tickets(s, id) == IF id \notin DOMAIN s THEN <<>> ELSE s[id].similar_tickets

set_user_decision(s, id, decision, t) ==
    IF id \in DOMAIN s
    THEN [s EXCEPT ![id].user_decision = decision, ![id].last_activity = t]
    ELSE s

get_user_decision(s, id) == IF id \notin DOMAIN s THEN None ELSE s[id].user_decision

clear_session_All(s, id) == [i \in {} |-> NewSession(0)]

clear_session(s, id) == IF id \in DOMAIN s THEN DictDel(s, id) ELSE s

----------------------------------------------------------------------------
(* SessionStore operations as steps of a client of the store *)

GetOrCreate(id) ==
    /\ sessions' = get_or_create_session(sessions, id, now)
    /\ last_op' = [op |-> "get_or_create_session", id |-> id]
    /\ UNCHANGED <<procVars, svcVars, ixVars, now, reqVars, convVars>>

MarkTurnComplete(id) ==
    /\ sessions' = mark_turn_complete(sessions, id, now)
    /\ last_op' = [op |-> "mark_turn_complete", id |-> id]
    /\ UNCHANGED <<procVars, svcVars, ixVars, now, reqVars, convVars>>

StoreSimilarityResults(id, tickets) ==
    /\ sessions' = store_similarity_results(sessions, id, tickets, now)
    /\ last_op' = [op |-> "store_similarity_results", id |-> id]
    /\ UNCHANGED <<procVars, svcVars, ixVars, now, reqVars, convVars>>

SetUserDecision(id, decision) ==
    /\ sessions' = set_user_decision(sessions, id, decision, now)
    /\ last_op' = [op |-> "set_user_decision", id |-> id]
    /\ UNCHANGED <<procVars, svcVars, ixVars, now, reqVars, convVars>>

ClearSession(id) ==
    /\ sessions' = clear_session(sessions, id)
    /\ last_op' = [op |-> "clear_session", id |-> id]
    /\ UNCHANGED <<procVars, svcVars, ixVars, now, reqVars, convVars>>

Tick ==
    /\ now < MaxClock
    /\ now' = now + 1
    /\ UNCHANGED <<procVars, svcVars, ixVars, sessions, last_op, reqVars, convVars>>

\* some store operation addressed to session id
StoreOpOn(id) ==
    \/ GetOrCreate(id)
    \/ MarkTurnComplete(id)
    \/ \E tickets \in MatchLists : StoreSimilarityResults(id, tickets)
    \/ \E decision \in Decisions : SetUserDecision(id, decision)
    \/ ClearSession(id)

----------------------------------------------------------------------------
(* Request values *)

Absent == "<absent>"

\* query texts a client sends
GreetingText == "hello"
HelpText == "what can you do"
PlainText    == "Create a bug for payment timeout"
\* a request that begins with a greeting word, and one that contains a help word
GreetingPrefixedText == "hi, create a bug for the login page"
HelpInsideText == "help me update SCRUM-42"

\* a request longer than 100 characters, its first 100 characters, and a
\* request that is markup only
LongText ==
    "Create a bug: checkout fails with a payment gateway timeout whenever the cart holds more than twenty items"
LongTextPrefix ==
    "Create a bug: checkout fails with a payment gateway timeout whenever the cart holds more than twenty"
MarkupText == "<br>"

QueryTexts ==
    {GreetingText, HelpText, PlainText, GreetingPrefixedText, HelpInsideText, LongText, MarkupText}

\* the vector index as one query sees it: the scores of its nearest records,
\* best first (VectorStore.search sorts by distance before it filters)
IndexContents == { <<30>>, <<60>>, <<95, 60>> }

IndexKeys == <<"SCRUM-1", "SCRUM-2">>

\* keys the tracker hands out
TrackerKeys == {"SCRUM-101", "SCRUM-102"}

TicketData(shape, summary, description, issue_type, issue_key, comment) ==
    [shape |-> shape, summary |-> summary, description |-> description,
     issue_type |-> issue_type, project_key |-> Absent,
     issue_key |-> issue_key, comment |-> comment]

\* ticket_data: None, or {}
NullData == TicketData("null", Absent, Absent, Absent, Absent, Absent)
EmptyData == TicketData("dict", Absent, Absent, Absent, Absent, Absent)

\* dict.get(field, default) on a ticket_data dict
td_get(td, field, default) == IF td[field] = Absent THEN default ELSE td[field]

\* the "ticket_data" objects the classifier answers with for create and update
CreateDatas ==
    { TicketData("dict", "Fix login", "Users get 401", "Bug", Absent, Absent),
      TicketData("dict", "<br>", Absent, Absent, Absent, Absent),
      NullData }

UpdateDatas ==
    { TicketData("dict", Absent, Absent, Absent, "SCRUM-42", "fixed"),
      TicketData("dict", Absent, Absent, Absent, Absent, "fixed"),
      NullData }

\* what the classifier call of orchestrator_node produces: "json" is a
\* response holding a JSON object, "badjson" one whose braces do not parse,
\* "text" one without braces, "raise" a call that failed
ClassifierOutcomes ==
    { [kind |-> "json", intent |-> "search", ticket_data |-> EmptyData],
      [kind |-> "json", intent |-> "info",   ticket_data |-> EmptyData],
      [kind |-> "json", intent |-> "delete", ticket_data |-> EmptyData],
      [kind |-> "json", intent |-> "delete",
       ticket_data |-> TicketData("dict", Absent, Absent, Absent, "SCRUM-42", "fixed")],
      [kind |-> "text", intent |-> "create", ticket_data |-> EmptyData],
      [kind |-> "text", intent |-> "sure, i can help with that", ticket_data |-> EmptyData],
      [kind |-> "badjson", intent |-> None,  ticket_data |-> EmptyData],
      [kind |-> "raise", intent |-> None,    ticket_data |-> EmptyData] }
    \cup { [kind |-> "json", intent |-> "create", ticket_data |-> td] : td \in CreateDatas }
    \cup { [kind |-> "json", intent |-> "update", ticket_data |-> td] : td \in UpdateDatas }

\* what the validity call of guardrail_node produces
GuardrailOutcomes == {"VALID", "INVALID: off topic", "INVALID:", "NO", "raise"}

HumanMessage(turn) == [type |-> "human", turn |-> turn]
AIMessage(turn) == [type |-> "ai", turn |-> turn]

\* seq[-k:] of Python
LastK(seq, k) == IF Len(seq) <= k THEN seq ELSE SubSeq(seq, Len(seq) - k + 1, Len(seq))

\* seq[:-1] of Python
ButLast(seq) == IF Len(seq) = 0 THEN seq ELSE SubSeq(seq, 1, Len(seq) - 1)

NoState ==
    [user_query |-> None, messages |-> <<>>, intent |-> None,
     is_valid_request |-> TRUE, guardrail_message |-> None,
     similar_tickets |-> <<>>, has_similar_tickets |-> FALSE,
     action_type |-> None, ticket_data |-> NullData, created_ticket |-> <<>>,
     final_response |-> <<>>, conversation_id |-> None, error |-> None]

\* initial_state of run_jira_assistant; final_response "" is the empty text
InitialState(user_query, conversation_id, turn) ==
    [NoState EXCEPT !.user_query = user_query,
                    !.messages = <<HumanMessage(turn)>>,
                    !.conversation_id = conversation_id]

NoResult ==
    [response |-> <<>>, intent |-> None, similar_tickets |-> <<>>,
     created_ticket |-> <<>>, action_type |-> None, error |-> None]

NoRouting == [reached |-> FALSE, first |-> FALSE, as_first |-> FALSE, context |-> <<>>]

----------------------------------------------------------------------------
(* Text helpers of the nodes *)

ValidIntents == {"search", "create", "update", "info"}

\* "not text or text.strip() == ''"
IsBlank(text) == text = ""

\* text[:100]
Prefix100(text) == IF text = LongText THEN LongTextPrefix ELSE text

\* strip_html_tags: tags removed, entities decoded, whitespace collapsed, stripped
strip_html_tags(text) ==
    CASE text = "<br>" -> ""
      [] text = "<b>Fix login</b>" -> "Fix login"
      [] OTHER -> text

\* query_lower in greetings or query_lower.startswith(g) for a greeting g
is_greeting(text) == text \in {GreetingText, GreetingPrefixedText}

\* any(help_word in query_lower for help_word in help_queries)
is_help(text) == text \in {HelpText, HelpInsideText}

GreetingResponse == <<"Hello! I'm your Jira assistant. I can help you: ... What would you like to do today?">>
HelpResponse == <<"I'm your Jira assistant! Here's what I can do: ...">>
InfoResponse == <<"I'm your Jira assistant! I can help you: ... What would you like to do?">>
NoneFoundResponse ==
    <<"I didn't find any similar tickets. Would you like me to create a new ticket for this issue?">>

\* result.split(":", 1)[1].strip() if ":" in result else the default reason
guardrail_reason(llm_result) ==
    CASE llm_result = "INVALID: off topic" -> "off topic"
      [] llm_result = "INVALID:" -> ""
      [] OTHER -> "Request does not meet guidelines"

----------------------------------------------------------------------------
(* guardrail_node *)

\* the help patterns are not looked at
guardrail_node_NoHelp(st, outcome) ==
    IF is_greeting(st.user_query)
    THEN [st EXCEPT !.is_valid_request = FALSE,
                    !.guardrail_message = "greeting_handled",
                    !.final_response = GreetingResponse]
    ELSE IF outcome \in {"raise", "VALID"}
    THEN [st EXCEPT !.is_valid_request = TRUE, !.guardrail_message = None]
    ELSE [st EXCEPT !.is_valid_request = FALSE,
                    !.guardrail_message = guardrail_reason(outcome),
                    !.final_response =
                        <<"I cannot process this request. ", guardrail_reason(outcome)>>]

\* the model call of guardrail_node: made only after both pattern checks
guardrail_calls(st) ==
    IF is_greeting(st.user_query) \/ is_help(st.user_query) THEN <<>> ELSE <<"validity">>

\* a validity call that raised rejects the request
guardrail_node_FailClosed(st, outcome) ==
    IF is_greeting(st.user_query)
    THEN [st EXCEPT !.is_valid_request = FALSE,
                    !.guardrail_message = "greeting_handled",
                    !.final_response = GreetingResponse]
    ELSE IF is_help(st.user_query)
    THEN [st EXCEPT !.is_valid_request = FALSE,
                    !.guardrail_message = "help_handled",
                    !.final_response = HelpResponse]
    ELSE IF outcome = "VALID"
    THEN [st EXCEPT !.is_valid_request = TRUE, !.guardrail_message = None]
    ELSE [st EXCEPT !.is_valid_request = FALSE,
                    !.guardrail_message = guardrail_reason(outcome),
                    !.final_response =
                        <<"I cannot process this request. ", guardrail_reason(outcome)>>]

\* the validity call was made and raised
guardrail_faults(st, outcome) ==
    IF guardrail_calls(st) # <<>> /\ outcome = "raise" THEN <<"validity">> ELSE <<>>

guardrail_node(st, outcome) ==
    IF is_greeting(st.user_query)
    THEN [st EXCEPT !.is_valid_request = FALSE,
                    !.guardrail_message = "greeting_handled",
                    !.final_response = GreetingResponse]
    ELSE IF is_help(st.user_query)
    THEN [st EXCEPT !.is_valid_request = FALSE,
                    !.guardrail_message = "help_handled",
                    !.final_response = HelpResponse]
    ELSE IF outcome = "raise"
    THEN [st EXCEPT !.is_valid_request = TRUE, !.guardrail_message = None]
    ELSE IF outcome = "VALID"
    THEN [st EXCEPT !.is_valid_request = TRUE, !.guardrail_message = None]
    ELSE [st EXCEPT !.is_valid_request = FALSE,
                    !.guardrail_message = guardrail_reason(outcome),
                    !.final_response =
                        <<"I cannot process this request. ", guardrail_reason(outcome)>>]

should_continue_after_guardrail(st) ==
    IF ~IsEmptyText(st.final_response) THEN "end"
    ELSE IF st.is_valid_request THEN "orchestrator"
    ELSE "end"

----------------------------------------------------------------------------
(* orchestrator_node *)

\* the "Previous conversation" part of full_query: messages[-6:-1] when there
\* is more than the current message
orchestrator_context(messages) ==
    IF Len(messages) > 1 THEN LastK(ButLast(messages), 5) ELSE <<>>

orchestrator_fallback(st) == [st EXCEPT !.intent = "search", !.ticket_data = EmptyData]

\* the intent the classifier gave is taken as it is
orchestrator_node_NoValidation(st, outcome) ==
    IF outcome.kind \in {"raise", "badjson"}
    THEN orchestrator_fallback(st)
    ELSE [st EXCEPT !.intent = outcome.intent,
                    !.ticket_data = IF outcome.kind = "json" THEN outcome.ticket_data
                                    ELSE EmptyData]

\* the classifier call of orchestrator_node failed: it raised, json.loads
\* raised on its text, or the intent it gave is none of the four
orchestrator_faults(outcome) ==
    IF outcome.kind = "raise" THEN <<"classifier raised">>
    ELSE IF outcome.kind = "badjson" THEN <<"classifier unparsable">>
    ELSE IF outcome.intent \notin ValidIntents THEN <<"classifier intent">>
    ELSE <<>>

orchestrator_node(st, outcome) ==
    IF outcome.kind \in {"raise", "badjson"}
    THEN orchestrator_fallback(st)
    ELSE LET ticket_data == IF outcome.kind = "json" THEN outcome.ticket_data ELSE EmptyData
             intent == IF outcome.intent \in ValidIntents THEN outcome.intent ELSE "search"
         IN  IF intent = "create" /\ ticket_data.shape = "null"
             THEN orchestrator_fallback(st)      \* ticket_data.get raises on None
             ELSE [st EXCEPT !.intent = intent, !.ticket_data = ticket_data]

\* the model call of orchestrator_node
orchestrator_calls == <<"classifier">>

should_check_similarity_AllToJira(st) ==
    IF st.intent = "info" THEN "final" ELSE "jira"

should_check_similarity(st) ==
    CASE st.intent = "create" -> "jira"
      [] st.intent = "update" -> "jira"
      [] st.intent = "search" -> "similarity"
      [] OTHER -> "final"

----------------------------------------------------------------------------
(* similarity_node *)

MaxSimilarityResults == 5
SimilarityThreshold == 50

\* VectorStore.search as search_tickets_node calls it: of the k nearest
\* records, those scoring at least the threshold, best first
vector_search(hits, k, threshold) ==
    LET nearest == [i \in 1..(IF Len(hits) < k THEN Len(hits) ELSE k) |->
                        Ticket(IndexKeys[i], hits[i])]
    IN  SelectSeq(nearest, LAMBDA t : t.similarity_score >= threshold)

\* the calls of the inner agent: query analysis, the query embedding, and the
\* analysis of the results when there are any
similarity_calls(matched) ==
    <<"analyze_query", "embedding">>
        \o (IF matched # <<>> THEN <<"analyze_results">> ELSE <<>>)

\* what the retrieval of search_tickets_node produces: its matches, or a
\* failure of generate_embedding or of vector_store.search
SimilarityOutcomes == {"ok", "embedding failed", "search failed"}

similarity_faults(outcome) == IF outcome = "ok" THEN <<>> ELSE <<outcome>>

\* outcome "ok": the inner agent returned its matches; otherwise the inner
\* agent returned no matches and the text of the exception as its error
similarity_node(st, hits, outcome) ==
    LET matched == IF outcome = "ok"
                   THEN vector_search(hits, MaxSimilarityResults, SimilarityThreshold)
                   ELSE <<>>
        st1 == [st EXCEPT !.similar_tickets = matched,
                          !.has_similar_tickets = (matched # <<>>)]
    IN  IF outcome = "ok" THEN st1 ELSE [st1 EXCEPT !.error = outcome]

----------------------------------------------------------------------------
(* jira_node *)

TrackerCall(op, project_key, summary, description, issue_type, issue_key, comment, returned) ==
    [op |-> op, project_key |-> project_key, summary |-> summary,
     description |-> description, issue_type |-> issue_type,
     issue_key |-> issue_key, comment |-> comment, returned |-> returned]

\* the error is recorded and no response text is written
jira_error_Silent(st, message) == [st EXCEPT !.error = message]

jira_error(st, message) ==
    [st EXCEPT !.error = message,
               !.final_response = <<"I encountered an error: ", message>>]

create_summary(st) ==
    LET summary == td_get(st.ticket_data, "summary", "")
    IN  strip_html_tags(IF IsBlank(summary) THEN Prefix100(st.user_query) ELSE summary)

create_description(st) ==
    LET description == td_get(st.ticket_data, "description", "")
    IN  strip_html_tags(IF IsBlank(description) THEN st.user_query ELSE description)

create_issue_type_AlwaysTask(st) == "Task"

create_issue_type(st) == td_get(st.ticket_data, "issue_type", "Task")

create_response_NoKey(issue_key, summary) ==
    <<"Successfully created ticket ", ": ", summary>>

create_response(issue_key, summary) ==
    <<"Successfully created ticket ", issue_key, ": ", summary>>

\* the tracker calls jira_node makes; outcome is a key of TrackerKeys, TRUE
\* for a comment that was added, or "raise"
jira_calls(st, outcome) ==
    IF st.ticket_data.shape = "null" THEN <<>>
    ELSE IF st.intent = "create"
    THEN << TrackerCall("createTicket", td_get(st.ticket_data, "project_key", "SCRUM"),
                        create_summary(st), create_description(st), create_issue_type(st),
                        None, None, IF outcome = "raise" THEN None ELSE outcome) >>
    ELSE IF st.intent = "update" /\ st.ticket_data.issue_key # Absent
    THEN << TrackerCall("addComment", None, None, None, None,
                        st.ticket_data.issue_key,
                        td_get(st.ticket_data, "comment", st.user_query),
                        IF outcome = "raise" THEN None ELSE "True") >>
    ELSE <<>>

\* an update goes to the tracker whether or not a key was extracted
jira_node_NoKeyCheck(st, outcome) ==
    IF st.ticket_data.shape = "null"
    THEN jira_error(st, "'NoneType' object has no attribute 'get'")
    ELSE IF st.intent = "create"
    THEN IF outcome = "raise"
         THEN jira_error(st, "tracker request failed")
         ELSE [st EXCEPT
                 !.created_ticket =
                     << [key |-> outcome, summary |-> create_summary(st),
                         description |-> create_description(st),
                         status |-> "To Do", issue_type |-> create_issue_type(st)] >>,
                 !.action_type = "create",
                 !.final_response = create_response(outcome, create_summary(st))]
    ELSE IF st.intent = "update"
    THEN IF outcome = "raise"
         THEN jira_error(st, "tracker request failed")
         ELSE [st EXCEPT
                 !.created_ticket =
                     << [key |-> st.ticket_data.issue_key,
                         summary |-> "Updated ticket",
                         description |-> td_get(st.ticket_data, "comment", st.user_query),
                         status |-> "In Progress", issue_type |-> "Task"] >>,
                 !.action_type = "update",
                 !.final_response =
                     <<"Successfully updated ticket ", st.ticket_data.issue_key>>]
    ELSE jira_error(st, "Unknown intent")

\* the tracker call was made and raised
jira_faults(st, outcome) ==
    IF jira_calls(st, outcome) # <<>> /\ outcome = "raise" THEN <<"tracker">> ELSE <<>>

jira_node(st, outcome) ==
    IF st.ticket_data.shape = "null"
    THEN jira_error(st, "'NoneType' object has no attribute 'get'")
    ELSE IF st.intent = "create"
    THEN IF outcome = "raise"
         THEN jira_error(st, "tracker request failed")
         ELSE [st EXCEPT
                 !.created_ticket =
                     << [key |-> outcome, summary |-> create_summary(st),
                         description |-> create_description(st),
                         status |-> "To Do", issue_type |-> create_issue_type(st)] >>,
                 !.action_type = "create",
                 !.final_response = create_response(outcome, create_summary(st))]
    ELSE IF st.intent = "update"
    THEN IF st.ticket_data.issue_key = Absent
         THEN jira_error(st, "Issue key is required for update operations")
         ELSE IF outcome = "raise"
         THEN jira_error(st, "tracker request failed")
         ELSE [st EXCEPT
                 !.created_ticket =
                     << [key |-> st.ticket_data.issue_key,
                         summary |-> "Updated ticket",
                         description |-> td_get(st.ticket_data, "comment", st.user_query),
                         status |-> "In Progress", issue_type |-> "Task"] >>,
                 !.action_type = "update",
                 !.final_response =
                     <<"Successfully updated ticket ", st.ticket_data.issue_key>>]
    ELSE jira_error(st, "Unknown intent")

----------------------------------------------------------------------------
(* create_final_response_node *)

TicketLines(tickets) == [i \in 1..Len(tickets) |-> tickets[i].key]

create_final_response_node_SearchOnly(st) ==
    IF st.intent = "search" /\ st.similar_tickets # <<>>
    THEN [st EXCEPT !.final_response = <<"I found similar ticket(s):">>]
    ELSE st

create_final_response_node(st) ==
    IF st.intent = "search"
    THEN IF st.similar_tickets # <<>>
         THEN [st EXCEPT !.final_response =
                   <<"I found ", ToString(Len(st.similar_tickets)), " similar ticket(s):">>
                   \o TicketLines(st.similar_tickets)
                   \o <<"Would you like me to create a new ticket or update one of these?">>]
         ELSE [st EXCEPT !.final_response = NoneFoundResponse]
    ELSE IF st.intent = "info"
    THEN [st EXCEPT !.final_response = InfoResponse]
    ELSE st

\* the unconditional edges of create_jira_graph
graph_edge(node) ==
    CASE node = "similarity" -> "final"
      [] node = "jira" -> "end"
      [] node = "final" -> "end"

\* the dict run_jira_assistant returns from the final state
assistant_result(st) ==
    [response |-> st.final_response, intent |-> st.intent,
     similar_tickets |-> st.similar_tickets, created_ticket |-> st.created_ticket,
     action_type |-> st.action_type, error |-> st.error]

----------------------------------------------------------------------------
(* The pipeline: run_jira_assistant and the nodes of the graph, one request  *)
(* per slot.  A node is one step; requests interleave between nodes.        *)

Thread(r) == thread_id(state[r].conversation_id)

\* run_jira_assistant up to graph.ainvoke: the input overwrites every channel
\* of the thread's checkpoint, "messages" included (AgentState declares no reducer)
Start(r, conversation_id, user_query) ==
    LET th == thread_id(conversation_id) IN
    /\ pc[r] \in {"idle", "returned"}
    /\ started[th] < MaxTurns
    /\ started' = [started EXCEPT ![th] = @ + 1]
    /\ state' = [state EXCEPT ![r] = InitialState(user_query, conversation_id, started[th] + 1)]
    /\ checkpoint' = [checkpoint EXCEPT ![th] = <<HumanMessage(started[th] + 1)>>]
    /\ pc' = [pc EXCEPT ![r] = "guardrail"]
    /\ path' = [path EXCEPT ![r] = <<>>]
    /\ routing' = [routing EXCEPT ![r] = NoRouting]
    /\ calls' = [calls EXCEPT ![r] = <<>>]
    /\ result' = [result EXCEPT ![r] = NoResult]
    /\ prior' = [prior EXCEPT ![r] = history[th]]
    /\ collab_calls' = [collab_calls EXCEPT ![r] = <<>>]
    /\ faults' = [faults EXCEPT ![r] = <<>>]
    /\ UNCHANGED <<procVars, svcVars, ixVars, storeVars, history, routed, firstSearched, index_hits>>

Guardrail(r) ==
    /\ pc[r] = "guardrail"
    /\ \E outcome \in GuardrailOutcomes :
         LET st == guardrail_node(state[r], outcome) IN
         /\ state' = [state EXCEPT ![r] = st]
         /\ pc' = [pc EXCEPT ![r] = should_continue_after_guardrail(st)]
         /\ faults' = [faults EXCEPT ![r] = @ \o guardrail_faults(state[r], outcome)]
    /\ path' = [path EXCEPT ![r] = Append(@, "guardrail")]
    /\ collab_calls' = [collab_calls EXCEPT ![r] = @ \o guardrail_calls(state[r])]
    /\ UNCHANGED <<procVars, svcVars, ixVars, storeVars, routing, calls, result, prior, convVars>>

Orchestrator(r) ==
    /\ pc[r] = "orchestrator"
    /\ \E outcome \in ClassifierOutcomes :
         LET st == orchestrator_node(state[r], outcome) IN
         /\ state' = [state EXCEPT ![r] = st]
         /\ pc' = [pc EXCEPT ![r] = should_check_similarity(st)]
         /\ faults' = [faults EXCEPT ![r] = @ \o orchestrator_faults(outcome)]
    /\ routing' = [routing EXCEPT ![r] =
                     [reached |-> TRUE,
                      first |-> routed[Thread(r)] = 0,
                      as_first |-> is_first_turn(sessions, state[r].conversation_id),
                      context |-> orchestrator_context(state[r].messages)]]
    /\ routed' = [routed EXCEPT ![Thread(r)] = @ + 1]
    /\ path' = [path EXCEPT ![r] = Append(@, "orchestrator")]
    /\ collab_calls' = [collab_calls EXCEPT ![r] = @ \o orchestrator_calls]
    /\ UNCHANGED <<procVars, svcVars, ixVars, storeVars, calls, result, prior, checkpoint, started, history,
                   firstSearched, index_hits>>

Similarity(r) ==
    /\ pc[r] = "similarity"
    /\ \E outcome \in SimilarityOutcomes :
         LET st == similarity_node(state[r], index_hits, outcome) IN
         /\ state' = [state EXCEPT ![r] = st]
         /\ faults' = [faults EXCEPT ![r] = @ \o similarity_faults(outcome)]
         /\ collab_calls' = [collab_calls EXCEPT ![r] = @ \o similarity_calls(st.similar_tickets)]
    /\ pc' = [pc EXCEPT ![r] = graph_edge("similarity")]
    /\ path' = [path EXCEPT ![r] = Append(@, "similarity")]
    /\ UNCHANGED <<procVars, svcVars, ixVars, storeVars, routing, calls, result, prior, convVars>>

Jira(r) ==
    /\ pc[r] = "jira"
    /\ \E outcome \in TrackerKeys \cup {"raise"} :
         /\ state' = [state EXCEPT ![r] = jira_node(state[r], outcome)]
         /\ calls' = [calls EXCEPT ![r] = @ \o jira_calls(state[r], outcome)]
         /\ faults' = [faults EXCEPT ![r] = @ \o jira_faults(state[r], outcome)]
    /\ pc' = [pc EXCEPT ![r] = graph_edge("jira")]
    /\ path' = [path EXCEPT ![r] = Append(@, "jira")]
    /\ UNCHANGED <<procVars, svcVars, ixVars, storeVars, routing, result, prior, collab_calls, convVars>>

Final(r) ==
    /\ pc[r] = "final"
    /\ state' = [state EXCEPT ![r] = create_final_response_node(state[r])]
    /\ pc' = [pc EXCEPT ![r] = graph_edge("final")]
    /\ path' = [path EXCEPT ![r] = Append(@, "final")]
    /\ UNCHANGED <<procVars, svcVars, ixVars, storeVars, routing, calls, result, prior, collab_calls, faults,
                   convVars>>

\* run_jira_assistant after graph.ainvoke: the AIMessage is appended to the
\* returned state only, the checkpoint keeps what the graph saved
Return(r) ==
    LET th == Thread(r)
        turn == state[r].messages[1].turn
    IN
    /\ pc[r] = "end"
    /\ result' = [result EXCEPT ![r] = assistant_result(state[r])]
    /\ history' = [history EXCEPT ![th] = @ \o <<HumanMessage(turn), AIMessage(turn)>>]
    /\ firstSearched' = [firstSearched EXCEPT ![th] =
                           IF history[th] = <<>> THEN state[r].intent = "search" ELSE @]
    /\ pc' = [pc EXCEPT ![r] = "returned"]
    /\ UNCHANGED <<procVars, svcVars, ixVars, storeVars, state, path, routing, calls, prior, collab_calls, faults,
                   checkpoint, started, routed, index_hits>>

----------------------------------------------------------------------------
(* VectorStore *)

\* self.dimension of VectorStore and self.embedding_dimension of EmbeddingsService
dimension == 384
embedding_dimension == 1536

\* an embedding: its length and its position (every vector of the model lies
\* on one axis); "of" names the text it was generated from
Vec(of, length, x) == [of |-> of, length |-> length, x |-> x]

NoVec == Vec(None, 0, 0)

\* threshold=None of search
NoThreshold == -1

\* faiss.IndexFlatL2(d): the dimension and the rows, in insertion order
IndexFlatL2(d) == [d |-> d, vectors |-> <<>>]

ntotal(ix) == Len(ix.vectors)

\* squared L2 distance, as IndexFlatL2 reports it
Distance(u, v) == (u.x - v.x) * (u.x - v.x)

\* similarities = 1 / (1 + distances[0]), times 100, rounded down: for a
\* whole threshold t, 100/(1+d) >= t exactly when the rounded value is >= t
similarity_of(distance) == 100 \div (1 + distance)

Min(a, b) == IF a < b THEN a ELSE b

\* row i comes before row j in the result of index.search: smaller distance
\* first, equal distances in row order
Closer(ix, q, i, j) ==
    \/ Distance(ix.vectors[i], q) < Distance(ix.vectors[j], q)
    \/ Distance(ix.vectors[i], q) = Distance(ix.vectors[j], q) /\ i < j

Rank(ix, q, i) == 1 + Cardinality({j \in 1..ntotal(ix) : Closer(ix, q, j, i)})

\* index.search(query_array, kk): the rows of the kk nearest vectors, nearest first
index_search(ix, q, kk) ==
    [p \in 1..kk |-> CHOOSE i \in 1..ntotal(ix) : Rank(ix, q, i) = p]

\* index.search asserts the query's length against the index dimension; an
\* empty index returns before the query is looked at
search_raises(ix, q) == ntotal(ix) > 0 /\ q.length # ix.d

\* VectorStore.search; rows are numbered from 1 here, so "idx < len(metadata)"
\* reads i <= Len(md)
search(ix, md, q, k, threshold) ==
    IF ntotal(ix) = 0 THEN <<>>
    ELSE LET indices == index_search(ix, q, Min(k, ntotal(ix)))
             known == SelectSeq(indices, LAMBDA i : i <= Len(md))
             candidates == [p \in 1..Len(known) |->
                              Ticket(md[known[p]].key,
                                     similarity_of(Distance(ix.vectors[known[p]], q)))]
         IN  SelectSeq(candidates,
                       LAMBDA t : threshold = NoThreshold \/ t.similarity_score >= threshold)

\* add_tickets raises before it changes anything: the length check (line 45),
\* np.array on lists of unequal lengths, index.add on an array that is not
\* two-dimensional (no embeddings at all) or whose width is not the index's
add_raises(ix, tickets, embeddings) ==
    \/ Len(tickets) # Len(embeddings)
    \/ \E i, j \in 1..Len(embeddings) : embeddings[i].length # embeddings[j].length
    \/ embeddings = <<>>
    \/ \E i \in 1..Len(embeddings) : embeddings[i].length # ix.d

\* metadata extended before the index checks the vectors
add_tickets_MetadataFirst(ix, md, tickets, embeddings) ==
    IF Len(tickets) # Len(embeddings)
    THEN [raised |-> TRUE, index |-> ix, metadata |-> md]
    ELSE IF add_raises(ix, tickets, embeddings)
    THEN [raised |-> TRUE, index |-> ix, metadata |-> md \o tickets]
    ELSE [raised |-> FALSE,
          index |-> [ix EXCEPT !.vectors = @ \o embeddings],
          metadata |-> md \o tickets]

add_tickets(ix, md, tickets, embeddings) ==
    IF add_raises(ix, tickets, embeddings)
    THEN [raised |-> TRUE, index |-> ix, metadata |-> md]
    ELSE [raised |-> FALSE,
          index |-> [ix EXCEPT !.vectors = @ \o embeddings],
          metadata |-> md \o tickets]

initialize_index == IndexFlatL2(dimension)

clear(ix, md) == [index |-> initialize_index, metadata |-> <<>>]

\* the two files of the persisted index
File(status, content) == [status |-> status, content |-> content]

MissingFile == File("missing", <<>>)
CorruptFile == File("corrupt", <<>>)

\* where a save can fail: writing the index file, opening the metadata file,
\* writing the metadata file
SaveFaults == {"none", "write_index", "open_metadata", "dump_metadata"}

\* only the index file is written
save_IndexOnly(ix, md, fi, fm, fault) ==
    IF fault = "write_index"
    THEN [raised |-> TRUE, index_file |-> CorruptFile, metadata_file |-> fm]
    ELSE [raised |-> FALSE, index_file |-> File("ok", <<ix>>), metadata_file |-> fm]

save(ix, md, fi, fm, fault) ==
    CASE fault = "write_index" ->
            [raised |-> TRUE, index_file |-> CorruptFile, metadata_file |-> fm]
      [] fault = "open_metadata" ->
            [raised |-> TRUE, index_file |-> File("ok", <<ix>>), metadata_file |-> fm]
      [] fault = "dump_metadata" ->
            [raised |-> TRUE, index_file |-> File("ok", <<ix>>), metadata_file |-> CorruptFile]
      [] OTHER ->
            [raised |-> FALSE, index_file |-> File("ok", <<ix>>),
             metadata_file |-> File("ok", <<md>>)]

\* load: self.index is assigned before the metadata file is opened; on any
\* exception only the index is re-initialised, self.metadata keeps its value
load(ix, md, fi, fm) ==
    IF fi.status # "ok" \/ fm.status # "ok"
    THEN [index |-> initialize_index, metadata |-> md]
    ELSE [index |-> fi.content[1], metadata |-> fm.content[1]]

\* VectorStore(): a new object over the files on disk
VectorStore_init(fi, fm) ==
    IF fi.status # "missing"
    THEN load(initialize_index, <<>>, fi, fm)
    ELSE [index |-> initialize_index, metadata |-> <<>>]

rebuild(ix, md, fi, fm, tickets, embeddings, fault) ==
    LET cleared == clear(ix, md)
        added == add_tickets(cleared.index, cleared.metadata, tickets, embeddings)
        saved == save(added.index, added.metadata, fi, fm, fault)
    IN  IF added.raised
        THEN [raised |-> TRUE, index |-> added.index, metadata |-> added.metadata,
              index_file |-> fi, metadata_file |-> fm]
        ELSE [raised |-> saved.raised, index |-> added.index, metadata |-> added.metadata,
              index_file |-> saved.index_file, metadata_file |-> saved.metadata_file]

----------------------------------------------------------------------------
(* VectorStore operations as steps of its owner, and the sync job *)

MaxRecords == 2     \* no add_tickets succeeds beyond this many rows or tickets

JiraTicket(key) == [key |-> key]

\* ticket sets and embedding lists handed to add_tickets and rebuild: well
\* formed ones, one embedding short, OpenAI-sized embeddings, embeddings of
\* unequal lengths, nothing at all
BatchNames == {"one", "two", "short", "wide", "ragged", "empty"}

Batch(name) ==
    CASE name = "one" ->
            [tickets |-> <<JiraTicket("SCRUM-1")>>,
             embeddings |-> <<Vec("SCRUM-1", dimension, 1)>>]
      [] name = "two" ->
            [tickets |-> <<JiraTicket("SCRUM-2"), JiraTicket("SCRUM-3")>>,
             embeddings |-> <<Vec("SCRUM-2", dimension, 0), Vec("SCRUM-3", dimension, 3)>>]
      [] name = "short" ->
            [tickets |-> <<JiraTicket("SCRUM-2"), JiraTicket("SCRUM-3")>>,
             embeddings |-> <<Vec("SCRUM-2", dimension, 0)>>]
      [] name = "wide" ->
            [tickets |-> <<JiraTicket("SCRUM-1")>>,
             embeddings |-> <<Vec("SCRUM-1", embedding_dimension, 1)>>]
      [] name = "ragged" ->
            [tickets |-> <<JiraTicket("SCRUM-2"), JiraTicket("SCRUM-3")>>,
             embeddings |-> <<Vec("SCRUM-2", dimension, 0), Vec("SCRUM-3", dimension - 1, 3)>>]
      [] OTHER ->
            [tickets |-> <<>>, embeddings |-> <<>>]

\* query embeddings, numbers of results asked for, thresholds
Queries == {Vec("query", dimension, 1), Vec("query", dimension, 2),
            Vec("query", embedding_dimension, 2)}
Ks == {1, 2, 5}
Thresholds == {NoThreshold, 50}

\* what jira_service.fetch_all_tickets gives the sync job
FetchOutcomes ==
    { [ok |-> FALSE, tickets |-> <<>>],
      [ok |-> TRUE, tickets |-> <<>>],
      [ok |-> TRUE, tickets |-> <<JiraTicket("SCRUM-1"), JiraTicket("SCRUM-2")>>] }

\* generate_embeddings_batch: one text-embedding-3-small vector per ticket
generate_embeddings_batch(tickets) ==
    [i \in 1..Len(tickets) |-> Vec(tickets[i].key, embedding_dimension, i)]

\* TicketSyncJob.sync_tickets on the job's store
sync_tickets(ix, md, fi, fm, fetched, embedded, fault) ==
    LET same == [raised |-> FALSE, index |-> ix, metadata |-> md,
                 index_file |-> fi, metadata_file |-> fm]
    IN  IF ~fetched.ok THEN [same EXCEPT !.raised = TRUE]
        ELSE IF fetched.tickets = <<>> THEN same
        ELSE IF embedded = "raise" THEN [same EXCEPT !.raised = TRUE]
        ELSE rebuild(ix, md, fi, fm, fetched.tickets,
                     generate_embeddings_batch(fetched.tickets), fault)

Call(op, outcome, batch, q, k, threshold, results) ==
    [op |-> op, outcome |-> outcome, batch |-> batch, q |-> q, k |-> k,
     threshold |-> threshold, results |-> results]

NoCall == Call(None, "ok", None, NoVec, 0, NoThreshold, <<>>)

Outcome(raised) == IF raised THEN "raise" ELSE "ok"

AddTickets(b) ==
    LET r == add_tickets(index, metadata, Batch(b).tickets, Batch(b).embeddings) IN
    /\ \/ r.raised
       \/ /\ ntotal(index) + Len(Batch(b).embeddings) <= MaxRecords
          /\ Len(metadata) + Len(Batch(b).tickets) <= MaxRecords
    /\ index' = r.index
    /\ metadata' = r.metadata
    /\ last_call' = Call("add_tickets", Outcome(r.raised), b, NoVec, 0, NoThreshold, <<>>)
    /\ UNCHANGED <<procVars, svcVars, index_file, metadata_file, storeVars, reqVars, convVars>>

Search(q, k, threshold) ==
    /\ last_call' = IF search_raises(index, q)
                    THEN Call("search", "raise", None, q, k, threshold, <<>>)
                    ELSE Call("search", "ok", None, q, k, threshold,
                              search(index, metadata, q, k, threshold))
    /\ UNCHANGED <<procVars, svcVars, index, metadata, index_file, metadata_file, storeVars, reqVars, convVars>>

Save(fault) ==
    LET r == save(index, metadata, index_file, metadata_file, fault) IN
    /\ index_file' = r.index_file
    /\ metadata_file' = r.metadata_file
    /\ last_call' = Call("save", Outcome(r.raised), None, NoVec, 0, NoThreshold, <<>>)
    /\ UNCHANGED <<procVars, svcVars, index, metadata, storeVars, reqVars, convVars>>

Load ==
    LET r == load(index, metadata, index_file, metadata_file) IN
    /\ index' = r.index
    /\ metadata' = r.metadata
    /\ last_call' = Call("load", "ok", None, NoVec, 0, NoThreshold, <<>>)
    /\ UNCHANGED <<procVars, svcVars, index_file, metadata_file, storeVars, reqVars, convVars>>

Clear ==
    LET r == clear(index, metadata) IN
    /\ index' = r.index
    /\ metadata' = r.metadata
    /\ last_call' = Call("clear", "ok", None, NoVec, 0, NoThreshold, <<>>)
    /\ UNCHANGED <<procVars, svcVars, index_file, metadata_file, storeVars, reqVars, convVars>>

Rebuild(b, fault) ==
    LET r == rebuild(index, metadata, index_file, metadata_file,
                     Batch(b).tickets, Batch(b).embeddings, fault) IN
    /\ index' = r.index
    /\ metadata' = r.metadata
    /\ index_file' = r.index_file
    /\ metadata_file' = r.metadata_file
    /\ last_call' = Call("rebuild", Outcome(r.raised), b, NoVec, 0, NoThreshold, <<>>)
    /\ UNCHANGED <<procVars, svcVars, storeVars, reqVars, convVars>>

\* the process starts again: a new VectorStore over the files on disk
Construct ==
    LET r == VectorStore_init(index_file, metadata_file) IN
    /\ index' = r.index
    /\ metadata' = r.metadata
    /\ last_call' = Call("__init__", "ok", None, NoVec, 0, NoThreshold, <<>>)
    /\ UNCHANGED <<procVars, svcVars, index_file, metadata_file, storeVars, reqVars, convVars>>

SyncTickets(fetched, embedded, fault) ==
    LET r == sync_tickets(index, metadata, index_file, metadata_file,
                          fetched, embedded, fault) IN
    /\ index' = r.index
    /\ metadata' = r.metadata
    /\ index_file' = r.index_file
    /\ metadata_file' = r.metadata_file
    /\ last_call' = Call("sync_tickets", Outcome(r.raised), None, NoVec,
                         Len(fetched.tickets), NoThreshold, <<>>)
    /\ UNCHANGED <<procVars, svcVars, storeVars, reqVars, convVars>>

\* a store as the process holds it before any file exists
InitIndex ==
    /\ index = initialize_index
    /\ metadata = <<>>
    /\ index_file = MissingFile
    /\ metadata_file = MissingFile
    /\ last_call = NoCall

----------------------------------------------------------------------------
(* One process: the sync job's store and the retrieval stage's store *)

StoreObject(ix, md) == [index |-> ix, metadata |-> md]

\* the record sets an earlier deployment saved
PersistedSets == { <<JiraTicket("SCRUM-8")>>, <<JiraTicket("SCRUM-8"), JiraTicket("SCRUM-9")>> }

PersistedIndex(tickets) ==
    [d |-> dimension, vectors |-> [i \in 1..Len(tickets) |-> Vec(tickets[i].key, dimension, i)]]

\* the files an earlier deployment left on disk: none, an index file and a
\* metadata file written together by save, or a pair with one unreadable file
PersistedPairs ==
    { [index_file |-> MissingFile, metadata_file |-> MissingFile] }
    \cup { [index_file |-> File("ok", <<PersistedIndex(tickets)>>),
            metadata_file |-> File("ok", <<tickets>>)] : tickets \in PersistedSets }
    \cup { [index_file |-> File("ok", <<PersistedIndex(tickets)>>),
            metadata_file |-> CorruptFile] : tickets \in PersistedSets }
    \cup { [index_file |-> CorruptFile,
            metadata_file |-> File("ok", <<tickets>>)] : tickets \in PersistedSets }

\* what jira_service.fetch_all_tickets gives the job of this process
ProcessFetchOutcomes ==
    FetchOutcomes
    \cup { [ok |-> TRUE, tickets |-> <<JiraTicket("SCRUM-3")>>],
           [ok |-> TRUE, tickets |-> <<JiraTicket("SCRUM-8"), JiraTicket("SCRUM-9")>>] }

\* the positions of the query embeddings of the requests
QueryPositions == {1, 2, 3}

\* generate_embedding(query): a text-embedding-3-small vector
generate_embedding(x) == Vec("query", embedding_dimension, x)

\* a store object before any process start
InitRetrieval ==
    /\ retrieval_store = StoreObject(initialize_index, <<>>)
    /\ synced = <<>>

\* the process starts: "vector_store = VectorStore()" at the import of
\* similarity_agent/nodes.py and "self.vector_store = VectorStore()" in
\* TicketSyncJob.__init__ each build their own object from the files
ProcessStart ==
    LET r == VectorStore_init(index_file, metadata_file) IN
    /\ index' = r.index
    /\ metadata' = r.metadata
    /\ retrieval_store' = StoreObject(r.index, r.metadata)
    /\ synced' = <<>>
    /\ last_call' = Call("__init__", "ok", None, NoVec, 0, NoThreshold, <<>>)
    /\ UNCHANGED <<svcVars, index_file, metadata_file, storeVars, reqVars, convVars>>

\* a run of the job: TicketSyncJob.sync_tickets on self.vector_store
SyncRun(fetched, embedded, fault) ==
    LET r == sync_tickets(index, metadata, index_file, metadata_file,
                          fetched, embedded, fault) IN
    /\ index' = r.index
    /\ metadata' = r.metadata
    /\ index_file' = r.index_file
    /\ metadata_file' = r.metadata_file
    /\ synced' = IF fetched.ok /\ fetched.tickets # <<>> /\ embedded = "ok"
                 THEN fetched.tickets ELSE synced
    /\ last_call' = Call("sync_tickets", Outcome(r.raised), None, NoVec,
                         Len(fetched.tickets), NoThreshold, <<>>)
    /\ UNCHANGED <<svcVars, retrieval_store, storeVars, reqVars, convVars>>

\* the retrieval of search_tickets_node: the query embedding, then
\* vector_store.search on the module's object
RetrievalSearch(x) ==
    LET q == generate_embedding(x) IN
    /\ last_call' =
         IF search_raises(retrieval_store.index, q)
         THEN Call("search_tickets_node", "raise", None, q, MaxSimilarityResults,
                   SimilarityThreshold, <<>>)
         ELSE Call("search_tickets_node", "ok", None, q, MaxSimilarityResults,
                   SimilarityThreshold,
                   search(retrieval_store.index, retrieval_store.metadata, q,
                          MaxSimilarityResults, SimilarityThreshold))
    /\ UNCHANGED <<procVars, svcVars, index, metadata, index_file, metadata_file,
                   storeVars, reqVars, convVars>>

----------------------------------------------------------------------------
(* JiraService and the notification webhook *)

MaxRetries == 2      \* largest "retries" argument a caller passes

\* retries=3, the default post_notification runs with under send_jira_notification
DefaultRetries == 3

\* what one POST gives: a response with its status code, httpx.RequestError,
\* or any other exception; status 0 stands for "no response"
Response(status) == [kind |-> "status", status |-> status]
RequestError == [kind |-> "RequestError", status |-> 0]
OtherException == [kind |-> "Exception", status |-> 0]

HttpOutcomes ==
    { Response(200), Response(302), Response(404), Response(429), Response(503),
      RequestError, OtherException }

\* the dict post_notification returns; status_code None is 0
NotificationResult(success, status_code, error) ==
    [success |-> success, status_code |-> status_code, error |-> error]

NoNotification == NotificationResult(FALSE, 0, None)

Returns(res) == [retry |-> FALSE, result |-> res]
Continues == [retry |-> TRUE, result |-> NoNotification]

\* every failed attempt is tried again while attempts are left
post_attempt_RetryAll(retries, attempt, o) ==
    IF o.kind = "status" /\ 200 <= o.status /\ o.status < 300
    THEN Returns(NotificationResult(TRUE, o.status, None))
    ELSE IF attempt <= retries
    THEN Continues
    ELSE Returns(NotificationResult(FALSE, o.status, "Notification failed after attempts"))

\* one pass of the "while True" loop of post_notification: attempt is the
\* counter after its increment, o is what the POST of this pass gives
post_attempt(retries, attempt, o) ==
    IF o.kind = "status"
    THEN IF 200 <= o.status /\ o.status < 300
         THEN Returns(NotificationResult(TRUE, o.status, None))
         ELSE IF o.status >= 500 \/ o.status = 429
         THEN IF attempt <= retries
              THEN Continues
              ELSE Returns(NotificationResult(FALSE, o.status,
                                              "Notification failed after attempts"))
         ELSE Returns(NotificationResult(FALSE, o.status, "Notification request failed"))
    ELSE IF o.kind = "RequestError"
    THEN IF attempt <= retries
         THEN Continues
         ELSE Returns(NotificationResult(FALSE, 0, "Request error after attempts"))
    ELSE Returns(NotificationResult(FALSE, 0, "unexpected error"))

\* post_notification before its loop: endpoint is None when neither the
\* argument nor NOTIFICATION_ENDPOINT is set
post_notification(endpoint) ==
    IF endpoint = None
    THEN Returns(NotificationResult(FALSE, 0, "No notification endpoint configured"))
    ELSE Continues

\* what the tracker's POST gives to create_ticket and add_comment
TrackerResponses ==
    { [kind |-> "status", status |-> 201, key |-> k] : k \in TrackerKeys }
    \cup { [kind |-> "status", status |-> 400, key |-> None],
           [kind |-> "status", status |-> 503, key |-> None],
           [kind |-> "RequestError", status |-> 0, key |-> None] }

NoResponse == [kind |-> None, status |-> 0, key |-> None]

\* client.post raised, or response.raise_for_status() raises
tracker_raises(response) == response.kind # "status" \/ response.status >= 400

ServiceResult(raised, returned) == [raised |-> raised, returned |-> returned]

\* the notification is awaited outside any try
create_ticket_NoTry(response, notify_raises) ==
    IF tracker_raises(response) \/ notify_raises
    THEN ServiceResult(TRUE, None)
    ELSE ServiceResult(FALSE, response.key)

\* JiraService.create_ticket; the data it returns is reduced to its "key".
\* notify_raises: send_jira_notification raised instead of returning
create_ticket(response, notify_raises) ==
    IF tracker_raises(response)
    THEN ServiceResult(TRUE, None)
    ELSE ServiceResult(FALSE, response.key)

\* JiraService.add_comment; the data it returns is not used by its caller
add_comment(response, notify_raises) ==
    IF tracker_raises(response)
    THEN ServiceResult(TRUE, None)
    ELSE ServiceResult(FALSE, "data")

\* return result["key"]
create_jira_ticket(response, notify_raises) == create_ticket(response, notify_raises)

\* await jira.add_comment(...); return True
update_jira_ticket_with_comment(response, notify_raises) ==
    LET r == add_comment(response, notify_raises)
    IN  IF r.raised THEN r ELSE ServiceResult(FALSE, "True")

TicketOps == {"create_jira_ticket", "update_jira_ticket_with_comment"}

\* what the ticket operation op gives its caller
ticket_op_result(op, response, notify_raises) ==
    IF op = "create_jira_ticket"
    THEN create_jira_ticket(response, notify_raises)
    ELSE update_jira_ticket_with_comment(response, notify_raises)

\* a call in progress or finished: phase "notify" is inside the loop of
\* post_notification, "done" is after the return or the raise; attempt is the
\* loop counter and http the outcomes of the POSTs made so far
ServiceCall(op, phase, response, endpoint, retries, attempt, http, raises, result_, res) ==
    [op |-> op, phase |-> phase, response |-> response, endpoint |-> endpoint,
     retries |-> retries, attempt |-> attempt, http |-> http,
     notify_raises |-> raises, notification |-> result_,
     raised |-> res.raised, returned |-> res.returned]

NoServiceCall ==
    ServiceCall(None, "idle", NoResponse, None, 0, 0, <<>>, FALSE, NoNotification,
                ServiceResult(FALSE, None))

Endpoints == {"https://hooks.example/notify", None}

\* a caller awaits post_notification(payload, endpoint, retries=retries)
CallPostNotification(endpoint, retries) ==
    LET first == post_notification(endpoint) IN
    /\ service_call.phase \in {"idle", "done"}
    /\ service_call' =
         ServiceCall("post_notification", IF first.retry THEN "notify" ELSE "done",
                     NoResponse, endpoint, retries, 0, <<>>, FALSE, first.result,
                     ServiceResult(FALSE, None))
    /\ UNCHANGED <<procVars, ixVars, storeVars, reqVars, convVars>>

\* a caller awaits create_jira_ticket or update_jira_ticket_with_comment: the
\* tracker POST, then the notification unless the POST failed
CallTicketOp(op, response, endpoint, notify_raises) ==
    LET first == post_notification(endpoint)
        notifying == ~tracker_raises(response) /\ ~notify_raises /\ first.retry
    IN
    /\ service_call.phase \in {"idle", "done"}
    /\ service_call' =
         ServiceCall(op, IF notifying THEN "notify" ELSE "done",
                     response, endpoint, DefaultRetries, 0, <<>>, notify_raises,
                     IF tracker_raises(response) \/ notify_raises
                     THEN NoNotification ELSE first.result,
                     IF notifying THEN ServiceResult(FALSE, None)
                     ELSE ticket_op_result(op, response, notify_raises))
    /\ UNCHANGED <<procVars, ixVars, storeVars, reqVars, convVars>>

\* one pass of the loop of post_notification: a POST and what follows it
Post(o) ==
    LET attempt == service_call.attempt + 1
        step == post_attempt(service_call.retries, attempt, o)
    IN
    /\ service_call.phase = "notify"
    /\ service_call' =
         [service_call EXCEPT
            !.attempt = attempt,
            !.http = Append(@, o),
            !.notification = step.result,
            !.phase = IF step.retry THEN "notify" ELSE "done",
            !.raised = FALSE,
            !.returned =
                IF step.retry \/ service_call.op = "post_notification" THEN None
                ELSE ticket_op_result(service_call.op, service_call.response,
                                      service_call.notify_raises).returned]
    /\ UNCHANGED <<procVars, ixVars, storeVars, reqVars, convVars>>

InitService == service_call = NoServiceCall

----------------------------------------------------------------------------
(* Specifications *)

InitRequests ==
    /\ pc = [r \in Requests |-> "idle"]
    /\ state = [r \in Requests |-> NoState]
    /\ path = [r \in Requests |-> <<>>]
    /\ routing = [r \in Requests |-> NoRouting]
    /\ calls = [r \in Requests |-> <<>>]
    /\ result = [r \in Requests |-> NoResult]
    /\ prior = [r \in Requests |-> <<>>]
    /\ collab_calls = [r \in Requests |-> <<>>]
    /\ faults = [r \in Requests |-> <<>>]
    /\ checkpoint = [th \in Threads |-> <<>>]
    /\ started = [th \in Threads |-> 0]
    /\ history = [th \in Threads |-> <<>>]
    /\ routed = [th \in Threads |-> 0]
    /\ firstSearched = [th \in Threads |-> FALSE]

\* the process after import: the store singleton holds no session
Init ==
    /\ sessions = <<>>
    /\ now = 0
    /\ last_op = [op |-> None, id |-> None]
    /\ InitRequests
    /\ index_hits \in IndexContents
    /\ InitIndex
    /\ InitService
    /\ InitRetrieval

\* a step of the request in slot r
RequestStep(r) ==
    \/ \E c \in ConversationIds, q \in QueryTexts : Start(r, c, q)
    \/ Guardrail(r)
    \/ Orchestrator(r)
    \/ Similarity(r)
    \/ Jira(r)
    \/ Final(r)
    \/ Return(r)

\* requests handled one after the other
Next == RequestStep("r1")

Spec == Init /\ [][Next]_vars

\* two requests on one conversation id, in flight at the same time: the API
\* handler awaits run_jira_assistant, so a second request starts while the
\* first is suspended between nodes
InitConcurrent ==
    /\ sessions = <<>>
    /\ now = 0
    /\ last_op = [op |-> None, id |-> None]
    /\ InitRequests
    /\ index_hits = <<95, 60>>
    /\ InitIndex
    /\ InitService
    /\ InitRetrieval

ConcurrentStep(r) ==
    \/ \E q \in QueryTexts \ {LongText, MarkupText} : Start(r, "c1", q)
    \/ Guardrail(r)
    \/ Orchestrator(r)
    \/ Similarity(r)
    \/ Jira(r)
    \/ Final(r)
    \/ Return(r)

NextConcurrent == \E r \in Requests : ConcurrentStep(r)

ConcurrentSpec == InitConcurrent /\ [][NextConcurrent]_vars

\* the store alone, driven by any client
InitStore ==
    /\ sessions = <<>>
    /\ now = 0
    /\ last_op = [op |-> None, id |-> None]
    /\ InitRequests
    /\ index_hits = <<>>
    /\ InitIndex
    /\ InitService
    /\ InitRetrieval

NextStore ==
    \/ \E id \in ConversationIds : StoreOpOn(id)
    \/ Tick

StoreSpec == InitStore /\ [][NextStore]_vars

\* one process over the files an earlier deployment left: started, then any
\* order of sync runs, retrieval searches and restarts
InitProcess ==
    /\ sessions = <<>>
    /\ now = 0
    /\ last_op = [op |-> None, id |-> None]
    /\ InitRequests
    /\ index_hits = <<>>
    /\ InitService
    /\ \E pair \in PersistedPairs :
          /\ index_file = pair.index_file
          /\ metadata_file = pair.metadata_file
          /\ index = VectorStore_init(index_file, metadata_file).index
          /\ metadata = VectorStore_init(index_file, metadata_file).metadata
          /\ retrieval_store = StoreObject(index, metadata)
    /\ synced = <<>>
    /\ last_call = NoCall

NextProcess ==
    \/ ProcessStart
    \/ \E fetched \in ProcessFetchOutcomes, embedded \in {"ok", "raise"}, fault \in SaveFaults :
          SyncRun(fetched, embedded, fault)
    \/ \E x \in QueryPositions : RetrievalSearch(x)

ProcessSpec == InitProcess /\ [][NextProcess]_vars

\* the tracker service and the webhook alone, driven by any caller
InitServiceOnly ==
    /\ sessions = <<>>
    /\ now = 0
    /\ last_op = [op |-> None, id |-> None]
    /\ InitRequests
    /\ index_hits = <<>>
    /\ InitIndex
    /\ InitService
    /\ InitRetrieval

NextService ==
    \/ \E endpoint \in Endpoints, retries \in 0..MaxRetries :
          CallPostNotification(endpoint, retries)
    \/ \E op \in TicketOps, response \in TrackerResponses, endpoint \in Endpoints,
          notify_raises \in BOOLEAN :
          CallTicketOp(op, response, endpoint, notify_raises)
    \/ \E o \in HttpOutcomes : Post(o)

ServiceSpec == InitServiceOnly /\ [][NextService]_vars

\* the vector store alone: its owner's calls, the sync job, restarts
InitVectorStore ==
    /\ sessions = <<>>
    /\ now = 0
    /\ last_op = [op |-> None, id |-> None]
    /\ InitRequests
    /\ index_hits = <<>>
    /\ InitIndex
    /\ InitService
    /\ InitRetrieval

NextVectorStore ==
    \/ \E b \in BatchNames : AddTickets(b)
    \/ \E q \in Queries, k \in Ks, threshold \in Thresholds : Search(q, k, threshold)
    \/ \E fault \in SaveFaults : Save(fault)
    \/ Load
    \/ Clear
    \/ \E b \in BatchNames, fault \in SaveFaults : Rebuild(b, fault)
    \/ Construct
    \/ \E fetched \in FetchOutcomes, embedded \in {"ok", "raise"}, fault \in SaveFaults :
          SyncTickets(fetched, embedded, fault)

VectorStoreSpec == InitVectorStore /\ [][NextVectorStore]_vars

TypeOK ==
    /\ now \in 0..MaxClock
    /\ \A r \in Requests : pc[r] \in {"idle", "guardrail", "orchestrator", "similarity",
                                      "jira", "final", "end", "returned"}

----------------------------------------------------------------------------
(* Properties *)

Returned(r) == pc[r] = "returned"

\* C1: for every conversation id, the first request that reaches the routing
\* stage ends with intent search and went through retrieval, whatever the
\* classifier answered.
C1_FirstTurnSearches ==
    \A r \in Requests :
        Returned(r) /\ routing[r].first =>
            /\ result[r].intent = "search"
            /\ Contains(path[r], "similarity")

\* what retrieval finds for the request's query in the index
RetrievalMatches == vector_search(index_hits, MaxSimilarityResults, SimilarityThreshold)

HighConfidenceDuplicate ==
    \E i \in 1..Len(RetrievalMatches) : RetrievalMatches[i].similarity_score >= 90

CreateCalls(r) == SelectSeq(calls[r], LAMBDA c : c.op = "createTicket")

CommentCalls(r) == SelectSeq(calls[r], LAMBDA c : c.op = "addComment")

C3_ResponseNonEmpty ==
    \A r \in Requests :
        /\ pc[r] = "end" => ~IsEmptyText(state[r].final_response)
        /\ Returned(r) => ~IsEmptyText(result[r].response)

C3_Witness ==
    \E r \in Requests :
        /\ Returned(r)
        /\ path[r] = <<"guardrail", "orchestrator", "final">>
        /\ result[r].intent = "info"
        /\ ~IsEmptyText(result[r].response)

\* the stage machine of the specification: the stages allowed after a stage
\* (Validate = guardrail, Route = orchestrator, Retrieve = similarity,
\*  Act = jira, Assemble = final)
SpecSuccessors(node, st) ==
    CASE node = "guardrail" ->
            IF st.is_valid_request THEN {"orchestrator"} ELSE {"end"}
      [] node = "orchestrator" ->
            IF st.intent = "search" THEN {"similarity"}
            ELSE IF st.intent \in {"create", "update"} THEN {"jira"}
            ELSE {"final"}
      [] node = "similarity" ->
            IF st.intent = "create" /\ ~HighConfidenceDuplicate THEN {"jira"} ELSE {"final"}
      [] node = "jira" -> {"final"}
      [] node = "final" -> {"end"}

\* the same machine with the two edges the graph has instead: Retrieve is
\* always followed by Assemble, Act is followed directly by End
GraphSuccessors(node, st) ==
    CASE node = "similarity" -> {"final"}
      [] node = "jira" -> {"end"}
      [] OTHER -> SpecSuccessors(node, st)

\* the stages of a finished request, End included
Stages(r) == path[r] \o <<"end">>

C5_CreateOnLaterTurn ==
    \A r \in Requests :
        Returned(r) /\ prior[r] # <<>> /\ firstSearched[Thread(r)]
                    /\ result[r].intent = "create" =>
            /\ path[r] = <<"guardrail", "orchestrator", "jira">>
            /\ Len(calls[r]) = 1
            /\ calls[r][1].op = "createTicket"
            /\ calls[r][1].issue_type =
                   (IF state[r].ticket_data.issue_type = Absent
                    THEN "Task" ELSE state[r].ticket_data.issue_type)
            /\ calls[r][1].returned # None =>
                   Contains(result[r].response, calls[r][1].returned)

C5_Witness ==
    \E r \in Requests :
        /\ Returned(r) /\ prior[r] # <<>> /\ firstSearched[Thread(r)]
        /\ result[r].intent = "create"
        /\ Len(calls[r]) = 1
        /\ calls[r][1].issue_type = "Bug"
        /\ calls[r][1].returned = "SCRUM-102"
        /\ Contains(result[r].response, "SCRUM-102")

\* C6: on the second and later turns of a conversation the routing stage
\* receives the prior turns (user and assistant messages, in order; the last
\* five messages) as context for the classifier.
C6_PriorTurnsInContext ==
    \A r \in Requests :
        routing[r].reached /\ prior[r] # <<>> =>
            routing[r].context = LastK(prior[r], 5)

\* C7: when the retrieval stage of a request completes, the Session Store's
\* stored matches for its conversation id equal the matches of that retrieval.
C7_RetrievalStored ==
    [][\A r \in Requests :
         pc[r] = "similarity" /\ pc'[r] = "final" =>
            get_similar_tickets(sessions', state'[r].conversation_id)
                = state'[r].similar_tickets]_vars

SameFor(id) ==
    /\ (id \in DOMAIN sessions') <=> (id \in DOMAIN sessions)
    /\ id \in DOMAIN sessions => sessions'[id] = sessions[id]

\* C9: a store operation addressed to id a never changes what is stored for
\* another id b: existence, first-turn flag, matches, decision.
C9_Frame ==
    [][\A a \in ConversationIds :
         StoreOpOn(a) => \A b \in ConversationIds \ {a} : SameFor(b)]_vars

C9_Witness ==
    \E a, b \in ConversationIds :
        /\ a # b
        /\ last_op = [op |-> "clear_session", id |-> a]
        /\ a \notin DOMAIN sessions
        /\ b \in DOMAIN sessions
        /\ ~sessions[b].first_turn
        /\ sessions[b].similar_tickets # <<>>
        /\ sessions[b].user_decision = "create_new"

\* C10: get_or_create_session is idempotent: the first call for an unseen id
\* creates a session with first turn not completed, no matches and no
\* decision; a later call creates nothing and leaves the first-turn flag,
\* the matches and the decision of that id unchanged.
C10_GetOrCreateIdempotent ==
    [][\A id \in ConversationIds :
         GetOrCreate(id) =>
            IF id \notin DOMAIN sessions
            THEN /\ DOMAIN sessions' = DOMAIN sessions \cup {id}
                 /\ sessions'[id].first_turn
                 /\ sessions'[id].similar_tickets = <<>>
                 /\ sessions'[id].user_decision = None
            ELSE /\ DOMAIN sessions' = DOMAIN sessions
                 /\ sessions'[id].first_turn = sessions[id].first_turn
                 /\ sessions'[id].similar_tickets = sessions[id].similar_tickets
                 /\ sessions'[id].user_decision = sessions[id].user_decision
                 /\ sessions'[id].created_at = sessions[id].created_at]_vars

C10_Witness ==
    \E id \in ConversationIds :
        /\ last_op = [op |-> "get_or_create_session", id |-> id]
        /\ id \in DOMAIN sessions
        /\ ~sessions[id].first_turn
        /\ sessions[id].similar_tickets # <<>>
        /\ sessions[id].user_decision = "update_existing"
        /\ sessions[id].last_activity > sessions[id].created_at

\* C11 as stated: for any conversation id, right after
\* store_similarity_results(id, m) the stored matches of id are m.
C11_StoreThenGet ==
    [][\A id \in ConversationIds, m \in MatchLists :
         StoreSimilarityResults(id, m) => get_similar_tickets(sessions', id) = m]_vars

\* C11 amended: for a conversation id whose session exists, right after
\* store_similarity_results(id, m) the stored matches of id are m, and no
\* operation other than store_similarity_results or clear_session on that id
\* changes them; for an id without a session the call stores nothing.
C11_StoreThenGetExisting ==
    [][\A id \in ConversationIds :
         /\ \A m \in MatchLists :
               StoreSimilarityResults(id, m) =>
                  get_similar_tickets(sessions', id) = (IF id \in DOMAIN sessions THEN m ELSE <<>>)
         /\ ~(last_op'.id = id /\ last_op'.op \in {"store_similarity_results", "clear_session"})
               => get_similar_tickets(sessions', id) = get_similar_tickets(sessions, id)]_vars

C11_Witness ==
    \E id \in ConversationIds :
        /\ last_op = [op |-> "mark_turn_complete", id |-> id]
        /\ id \in DOMAIN sessions
        /\ get_similar_tickets(sessions, id) = <<Ticket("SCRUM-2", 60), Ticket("SCRUM-1", 95)>>
        /\ sessions[id].last_activity > sessions[id].created_at

SearchReturned == last_call.op = "search" /\ last_call.outcome = "ok"

NonIncreasing(results) ==
    \A i \in 1..(Len(results) - 1) :
        results[i].similarity_score >= results[i + 1].similarity_score

\* C12: a search with no threshold returns exactly min(k, n) results, n the
\* number of vectors in the index, ordered by non-increasing score, each score
\* above 0 and at most 1.
C12_SearchCount ==
    SearchReturned /\ last_call.threshold = NoThreshold =>
        /\ Len(last_call.results) = Min(last_call.k, ntotal(index))
        /\ NonIncreasing(last_call.results)
        /\ \A i \in 1..Len(last_call.results) :
              /\ last_call.results[i].similarity_score > 0
              /\ last_call.results[i].similarity_score <= 100

\* the records of the min(k, n) nearest rows that score at least t, nearest
\* first, each named by the ticket its vector was generated from
NearestAtLeast(q, k, t) ==
    LET rows == index_search(index, q, Min(k, ntotal(index)))
        kept == SelectSeq(rows, LAMBDA i : similarity_of(Distance(index.vectors[i], q)) >= t)
    IN  [p \in 1..Len(kept) |->
            Ticket(index.vectors[kept[p]].of,
                   similarity_of(Distance(index.vectors[kept[p]], q)))]

\* C13: a search with threshold t returns exactly those of the min(k, n)
\* nearest records that score at least t, in non-increasing score order:
\* none below t, none ranked beyond the k nearest.
C13_SearchThreshold ==
    SearchReturned /\ last_call.threshold # NoThreshold =>
        /\ last_call.results = NearestAtLeast(last_call.q, last_call.k, last_call.threshold)
        /\ NonIncreasing(last_call.results)

\* C14: in every state of the vector store the number of vectors in the
\* index equals the length of the metadata list and row i of the index is the
\* vector of metadata entry i.
C14_IndexMatchesMetadata ==
    /\ ntotal(index) = Len(metadata)
    /\ \A i \in 1..Len(metadata) : index.vectors[i].of = metadata[i].key

\* C15: rebuild is atomic: when a sync fails at embedding generation, or a
\* rebuild fails at any of its steps, the index and the metadata a search
\* sees are those from before the call.
C15_RebuildAtomic ==
    [][last_call'.op \in {"rebuild", "sync_tickets"} /\ last_call'.outcome = "raise" =>
          /\ index' = index
          /\ metadata' = metadata]_vars

\* C16: rebuild with no tickets and no vectors returns without error and
\* leaves an empty index, on which every search returns the empty list
\* without raising.
C16_EmptyRebuild ==
    last_call.op = "rebuild" /\ last_call.batch = "empty" =>
        /\ last_call.outcome = "ok"
        /\ ntotal(index) = 0
        /\ metadata = <<>>
        /\ \A q \in Queries, k \in Ks, t \in Thresholds :
              /\ ~search_raises(index, q)
              /\ search(index, metadata, q, k, t) = <<>>

\* the two files hold a readable pair of equal length
MatchedPair ==
    /\ index_file.status = "ok"
    /\ metadata_file.status = "ok"
    /\ ntotal(index_file.content[1]) = Len(metadata_file.content[1])

\* C17: load (called directly or by the constructor) never raises, and after
\* it the store holds the persisted pair when the two files are readable and
\* of equal length, and otherwise the empty index of the configured dimension
\* with an empty metadata list.
C17_LoadFallsBack ==
    [][last_call'.op \in {"load", "__init__"} =>
          /\ last_call'.outcome = "ok"
          /\ IF MatchedPair
             THEN /\ index' = index_file.content[1]
                  /\ metadata' = metadata_file.content[1]
             ELSE /\ index' = IndexFlatL2(dimension)
                  /\ metadata' = <<>>]_vars

\* C18: after a save that succeeded, a load (into the same store or into a
\* new one) gives a store on which every search returns the same tickets, in
\* the same order, with the same scores as before the save.
C18_RoundTrip ==
    [][last_call.op = "save" /\ last_call.outcome = "ok"
          /\ last_call'.op \in {"load", "__init__"} =>
          \A q \in Queries, k \in Ks, t \in Thresholds :
              /\ search_raises(index', q) = search_raises(index, q)
              /\ search(index', metadata', q, k, t) = search(index, metadata, q, k, t)]_vars

C18_Witness ==
    /\ last_call.op = "load"
    /\ index_file = File("ok", <<index>>)
    /\ metadata_file = File("ok", <<metadata>>)
    /\ search(index, metadata, Vec("query", dimension, 2), 5, NoThreshold)
          = <<Ticket("SCRUM-3", 50), Ticket("SCRUM-2", 20)>>

\* the batch breaks what add_tickets requires: lists of different lengths, or
\* a vector whose length is not the index dimension
BadBatch(b, ix) ==
    \/ Len(Batch(b).tickets) # Len(Batch(b).embeddings)
    \/ \E i \in 1..Len(Batch(b).embeddings) : Batch(b).embeddings[i].length # ix.d

\* C19: add_tickets fails when the two lists differ in length or a vector's
\* length is not the index dimension; when it succeeds it has appended the
\* vectors to the index and the tickets to the metadata, in the same order;
\* when it fails the index and the metadata are as before the call.
C19_AddLockStep ==
    [][last_call'.op = "add_tickets" =>
          /\ BadBatch(last_call'.batch, index) => last_call'.outcome = "raise"
          /\ last_call'.outcome = "ok" =>
                /\ index' = [index EXCEPT !.vectors = @ \o Batch(last_call'.batch).embeddings]
                /\ metadata' = metadata \o Batch(last_call'.batch).tickets
          /\ last_call'.outcome = "raise" =>
                /\ index' = index
                /\ metadata' = metadata]_vars

C19_Witness ==
    /\ last_call.op = "add_tickets"
    /\ last_call.batch = "ragged"
    /\ last_call.outcome = "raise"
    /\ index.vectors = <<Vec("SCRUM-1", dimension, 1)>>
    /\ metadata = <<JiraTicket("SCRUM-1")>>

\* the validation stage recognises the query as a greeting or a help request
Recognised(text) == is_greeting(text) \/ is_help(text)

CannedResponse(text) == IF is_greeting(text) THEN GreetingResponse ELSE HelpResponse

\* C20: a request whose query is recognised as a greeting or a help request
\* is answered with the canned text and ends after the validation stage:
\* routing, retrieval and action do not run, and it makes no model,
\* embedding or tracker call.
C20_TrivialAnsweredDirectly ==
    \A r \in Requests :
        pc[r] # "idle" /\ Recognised(state[r].user_query) =>
            /\ collab_calls[r] = <<>>
            /\ calls[r] = <<>>
            /\ ~routing[r].reached
            /\ path[r] \in {<<>>, <<"guardrail">>}
            /\ Returned(r) =>
                  /\ path[r] = <<"guardrail">>
                  /\ result[r].response = CannedResponse(state[r].user_query)

C20_Witness ==
    \E r \in Requests :
        /\ Returned(r)
        /\ state[r].user_query = HelpInsideText
        /\ path[r] = <<"guardrail">>
        /\ result[r].response = HelpResponse
        /\ collab_calls[r] = <<>>

----------------------------------------------------------------------------
(* Faults of the collaborators of the pipeline *)

ValidityFailed(r) == \E i \in 1..Len(faults[r]) : faults[r][i] = "validity"

ClassifierFailed(r) ==
    \E i \in 1..Len(faults[r]) :
        faults[r][i] \in {"classifier raised", "classifier unparsable", "classifier intent"}

ClassifierGaveNothing(r) ==
    \E i \in 1..Len(faults[r]) :
        faults[r][i] \in {"classifier raised", "classifier unparsable"}

RetrievalFailed(r) ==
    \E i \in 1..Len(faults[r]) : faults[r][i] \in {"embedding failed", "search failed"}

TrackerFailed(r) == \E i \in 1..Len(faults[r]) : faults[r][i] = "tracker"

Rejection(text) == Len(text) > 0 /\ text[1] = "I cannot process this request. "

Ran(r, node) == \E i \in 1..Len(path[r]) : path[r][i] = node

\* C21: when the validity call of the validation stage fails, the request
\* counts as accepted: it is marked valid, no rejection response is set, and
\* the next stage to run is routing.
C21_FailOpen ==
    \A r \in Requests :
        ValidityFailed(r) =>
            /\ state[r].is_valid_request
            /\ state[r].guardrail_message = None
            /\ ~Rejection(state[r].final_response)
            /\ path[r][1] = "guardrail"
            /\ IF Len(path[r]) = 1
               THEN pc[r] = "orchestrator" /\ IsEmptyText(state[r].final_response)
               ELSE path[r][2] = "orchestrator"

C21_Witness ==
    \E r \in Requests :
        /\ ValidityFailed(r)
        /\ Returned(r)
        /\ Ran(r, "orchestrator")
        /\ ~Rejection(result[r].response)

\* C22 as claimed: when the classifier call fails (it raises, its structured
\* text does not parse, or its intent is none of search, create, update,
\* info) routing sets intent search with empty extracted fields, and the
\* request makes no tracker call.
C22_FailureGivesEmptySearch ==
    \A r \in Requests :
        ClassifierFailed(r) =>
            /\ state[r].intent = "search"
            /\ state[r].ticket_data = EmptyData
            /\ calls[r] = <<>>
            /\ ~Ran(r, "jira")

\* C22: when the classifier call fails, routing sets intent search, the
\* action stage does not run and the request makes no tracker call; the
\* extracted fields are empty when the call raised or its text did not
\* parse, and are what the classifier gave when only its intent was unknown.
C22_FailureGivesSearch ==
    \A r \in Requests :
        ClassifierFailed(r) =>
            /\ state[r].intent = "search"
            /\ pc[r] # "jira"
            /\ calls[r] = <<>>
            /\ ~Ran(r, "jira")
            /\ ClassifierGaveNothing(r) => state[r].ticket_data = EmptyData

C22_Witness ==
    \E r \in Requests :
        /\ Returned(r)
        /\ faults[r] = <<"classifier intent">>
        /\ state[r].intent = "search"
        /\ state[r].ticket_data # EmptyData
        /\ path[r] = <<"guardrail", "orchestrator", "similarity", "final">>
        /\ calls[r] = <<>>

KeylessUpdate(r) ==
    /\ Ran(r, "orchestrator")
    /\ state[r].intent = "update"
    /\ state[r].ticket_data.issue_key = Absent

ErrorResponse(st) == <<"I encountered an error: ", st.error>>

\* C23: an update request for which no ticket key was extracted ends with
\* error set and a response that states the error, makes no addComment call,
\* and returns a result to the caller of the pipeline.
C23_KeylessUpdateExplained ==
    \A r \in Requests :
        KeylessUpdate(r) =>
            /\ \A i \in 1..Len(calls[r]) : calls[r][i].op # "addComment"
            /\ pc[r] \in {"jira", "end", "returned"}
            /\ pc[r] \in {"end", "returned"} =>
                  /\ state[r].error # None
                  /\ state[r].final_response = ErrorResponse(state[r])
                  /\ state[r].created_ticket = <<>>
            /\ Returned(r) =>
                  /\ result[r].error = state[r].error
                  /\ result[r].response = state[r].final_response

C23_Witness ==
    \E r \in Requests :
        /\ Returned(r)
        /\ KeylessUpdate(r)
        /\ state[r].ticket_data.shape = "dict"
        /\ result[r].error = "Issue key is required for update operations"
        /\ result[r].response =
               <<"I encountered an error: ", "Issue key is required for update operations">>
        /\ calls[r] = <<>>

\* C24: the create operation never calls createTicket with an empty summary
\* or an empty description.
C24_NoEmptyCreate ==
    \A r \in Requests :
        \A i \in 1..Len(calls[r]) :
            calls[r][i].op = "createTicket" =>
                calls[r][i].summary # "" /\ calls[r][i].description # ""

Faulted(r) == faults[r] # <<>>

\* a result with a response text and an error field
WellFormed(res) ==
    /\ {"response", "error"} \subseteq DOMAIN res
    /\ ~IsEmptyText(res.response)

\* C26: whatever collaborator call of a request failed (validity, classifier,
\* embedding, index search, tracker), the request runs on to the end of the
\* graph and its caller gets a result with a response text and an error field.
C26_NoFaultEscapes ==
    \A r \in Requests :
        Faulted(r) =>
            /\ pc[r] \in {"orchestrator", "similarity", "jira", "final", "end", "returned"}
            /\ pc[r] = "end" => ~IsEmptyText(state[r].final_response)
            /\ Returned(r) => WellFormed(result[r])

C26_Witness ==
    \E r \in Requests :
        /\ Returned(r)
        /\ faults[r] = <<"validity", "classifier raised", "search failed">>
        /\ WellFormed(result[r])

\* C27: when the retrieval of a request failed (embedding or index search)
\* or its tracker call failed, the final state has error set and the
\* response states the failure; a failed retrieval is not answered with the
\* "no similar tickets" text.
C27_FailureExplained ==
    \A r \in Requests :
        pc[r] \in {"end", "returned"} =>
            /\ RetrievalFailed(r) =>
                  /\ state[r].error # None
                  /\ state[r].final_response # NoneFoundResponse
            /\ TrackerFailed(r) =>
                  /\ state[r].error # None
                  /\ state[r].final_response = ErrorResponse(state[r])

----------------------------------------------------------------------------
(* The ticket operations and their notification *)

\* C25: a ticket operation whose tracker call succeeded returns its success
\* result (the created key, or true for a comment) and does not raise,
\* whatever the notification did: raised, got a status that is not 2xx, ran
\* out of retries, or had no endpoint.
C25_NotificationNeverFailsTicketOp ==
    service_call.op \in TicketOps /\ service_call.phase = "done"
        /\ ~tracker_raises(service_call.response) =>
            /\ ~service_call.raised
            /\ service_call.returned =
                   IF service_call.op = "create_jira_ticket"
                   THEN service_call.response.key ELSE "True"

C25_Witness ==
    /\ service_call.op = "create_jira_ticket"
    /\ service_call.phase = "done"
    /\ service_call.response.status = 201
    /\ service_call.attempt = DefaultRetries + 1
    /\ ~service_call.notification.success
    /\ service_call.returned = service_call.response.key
    /\ ~service_call.raised

\* the outcomes after which post_notification tries again
Retriable(o) ==
    \/ o.kind = "RequestError"
    \/ o.kind = "status" /\ (o.status >= 500 \/ o.status = 429)

Success(o) == o.kind = "status" /\ 200 <= o.status /\ o.status < 300

\* C30: whatever the POSTs give, post_notification makes at most retries + 1
\* of them; every POST but the last one gave a 5xx or 429 status or a request
\* error; it returns at the first 2xx (success true) and at the first other
\* status or other exception (success false), and after a 5xx, 429 or
\* request error only when the attempts are used up; with no endpoint it
\* makes no POST; it never raises.
C30_BoundedAttempts ==
    service_call.op # None =>
        /\ service_call.attempt = Len(service_call.http)
        /\ service_call.attempt <= service_call.retries + 1
        /\ \A i \in 1..(Len(service_call.http) - 1) : Retriable(service_call.http[i])
        /\ service_call.phase = "notify" =>
              /\ service_call.attempt <= service_call.retries
              /\ \A i \in 1..Len(service_call.http) : Retriable(service_call.http[i])
        /\ service_call.endpoint = None =>
              /\ service_call.attempt = 0
              /\ service_call.phase = "done"
              /\ ~service_call.notification.success
        /\ service_call.phase = "done" /\ service_call.attempt > 0 =>
              /\ service_call.notification.success
                     = Success(service_call.http[service_call.attempt])
              /\ Retriable(service_call.http[service_call.attempt]) =>
                     service_call.attempt = service_call.retries + 1
        /\ service_call.op = "post_notification" => ~service_call.raised

C30_Witness ==
    /\ service_call.op = "post_notification"
    /\ service_call.phase = "done"
    /\ service_call.retries = 2
    /\ service_call.http = <<Response(503), RequestError, Response(429)>>
    /\ ~service_call.notification.success
    /\ service_call.notification.status_code = 429

----------------------------------------------------------------------------
(* The sync job and the retrieval stage in one process *)

C29_DimensionAgrees ==
    /\ index.d = embedding_dimension
    /\ last_call.op = "rebuild" /\ last_call.batch = "wide" =>
          ntotal(index) = Len(Batch("wide").embeddings)
    /\ last_call.op = "search" /\ last_call.q.length = embedding_dimension =>
          last_call.outcome = "ok"

====
